---- MODULE Spec2Model ----
(***************************************************************************)
(* The account and e-mail verification subsystem of nuber-eats-backend:    *)
(* UsersService (createAccount, login, editProfile, verifyEmail) running   *)
(* as concurrent request handlers over the users and verifications         *)
(* repositories.  Every awaited repository call is one atomic step, and    *)
(* nothing makes two steps of one handler atomic (the service opens no     *)
(* transaction); a handler's local entity objects are snapshots of the     *)
(* store.  The User and Verification entities and JwtService are not among *)
(* the sources: the email column is unique, a user may have several        *)
(* verification rows, passwords are stored hashed, tokens are signed ids.  *)
(***************************************************************************)
EXTENDS Integers, Sequences, FiniteSets, TLC

\* ------------------------------------------------------------------ bounds
\* Number of operation calls made in a run.
MaxCalls == 4

\* Handler slots; identical, so a call takes the lowest free one.
Procs     == {1, 2}
Emails    == {"a@x", "b@x"}
Roles     == {"Owner"}
\* Plaintext passwords: accounts are created with the first, editProfile sets
\* the second, login tries both.
CreatePasswords == {"pw1"}
EditPasswords   == {"pw2"}
LoginPasswords  == {"pw1", "pw2"}
\* Codes a caller of verifyEmail may present: every code that can have been
\* issued (one per call at most), so also codes not issued yet.
Codes     == 1..MaxCalls

\* ------------------------------------------------------------------ values
NoUser  == [id |-> 0, email |-> "", password |-> "", verified |-> FALSE, role |-> ""]
NoVerif == [id |-> 0, code |-> 0, user |-> 0]
NoToken == [id |-> 0, sig |-> <<>>]
NoArg   == [email |-> "", password |-> "", role |-> "", userId |-> 0, code |-> 0]
NoRes   == [ok |-> FALSE, error |-> "", token |-> NoToken, user |-> NoUser]
NoChange == [old |-> {}, new |-> 0]

Ok              == [ok |-> TRUE, error |-> "", token |-> NoToken, user |-> NoUser]
OkToken(t)      == [ok |-> TRUE, error |-> "", token |-> t, user |-> NoUser]
OkUser(u)       == [ok |-> TRUE, error |-> "", token |-> NoToken, user |-> u]
Fail(msg)       == [ok |-> FALSE, error |-> msg, token |-> NoToken, user |-> NoUser]

\* A request: whether it carries an x-jwt header and the header's value, the
\* operation it targets and that operation's input.
NoReq   == [jwt |-> FALSE, token |-> NoToken, op |-> "", input |-> NoArg]
\* A response: the error that aborted the request, or the resolver's value (the
\* User that me returns, or the result object of the other operations).
NoResp    == [error |-> "", user |-> NoUser, result |-> NoRes]
Forbidden == [error |-> "Forbidden resource", user |-> NoUser, result |-> NoRes]

\* User entity: the password column holds the salted hash of the plaintext,
\* computed when the plaintext is assigned; checkPassword compares through it.
Hash(plain) == "bcrypt:" \o plain
CheckPassword(plain, stored) == Hash(plain) = stored

\* JwtService.sign: the token carries the id and a keyed signature over it.
PrivateKey == "secret"
Sign(id) == [id |-> id, sig |-> <<PrivateKey, id>>]

\* JwtService.verify: the payload of a token whose signature was made with the
\* key over that payload; any other token is refused.  A payload is an object
\* that carries an id (id > 0), an object without an id (id = 0), or a string
\* (id < 0).
InvalidToken == [valid |-> FALSE, object |-> FALSE, hasId |-> FALSE, id |-> 0]
Verify(token) ==
  IF token.sig = <<PrivateKey, token.id>>
  THEN [valid |-> TRUE, object |-> token.id >= 0, hasId |-> token.id > 0, id |-> token.id]
  ELSE InvalidToken

\* Values of the x-jwt header: tokens signed for user ids, a token with a
\* signature made without the key, a string that is no token, and tokens signed
\* with the key over a payload without an id and over a string payload.
Forged     == [id |-> 1, sig |-> <<"guess", 1>>]
Malformed  == NoToken
SignedNoId == [id |-> 0, sig |-> <<PrivateKey, 0>>]
SignedText == [id |-> -1, sig |-> <<PrivateKey, -1>>]
Tokens == {Sign(i) : i \in 1..Cardinality(Emails)}
            \cup {Forged, Malformed, SignedNoId, SignedText}

VARIABLES
  calls,          \* operation calls made so far
  users,          \* users repository: row id |-> [email, password, verified, role]
  verifications,  \* verifications repository: set of [id, code, user]
  nextCode,       \* generator of verification ids / codes
  pc, op, arg,    \* per handler: position, operation, input
  luser, lverif,  \* per handler: the local User / Verification entity objects
  result,         \* per handler: the value the operation resolves to
  mailed,         \* per handler: sendVerificationEmail calls made, <<email, code>>
  old,            \* per handler: codes live for the edited user when editProfile read it
  change,         \* per user: [old, new] codes of its last completed email change
  lastAssign,     \* per user: first code issued at or after its last email assignment
  verifiedBy,     \* per user: code whose verifyEmail last stored verified = true
  okCount,        \* per code: number of verifyEmail calls that returned {ok: true}
  threw,          \* per handler: a store call of the running operation threw
  mailFailed,     \* per handler: a sendVerificationEmail call resolved to false
  wrote,          \* per handler: a store call of the running operation changed a table
  stage,         \* per handler: position of its request in the HTTP pipeline
  req,            \* per handler: the request (x-jwt header, operation, input)
  ruser,          \* per handler: req['user'], the identity attached to the request
  nexts,          \* per handler: number of next() calls JwtMiddleware.use has made
  resp,           \* per handler: the response of the request
  issued          \* tokens returned by login, each with the user that logged in

\* What the service's callers add to its state: injected faults and the request
\* pipeline in front of the resolver.
faultvars == <<threw, mailFailed, wrote>>
reqvars == <<stage, req, ruser, nexts, resp, issued>>

vars == <<calls, users, verifications, nextCode, pc, op, arg, luser, lverif, result,
          mailed, old, change, lastAssign, verifiedBy, okCount, threw, mailFailed,
          wrote, stage, req, ruser, nexts, resp, issued>>

store == <<users, verifications>>

svcvars == <<calls, users, verifications, nextCode, pc, op, arg, luser, lverif, result,
             mailed, old, change, lastAssign, verifiedBy, okCount>>

Ids == DOMAIN users
\* Repository.save(entity) of a loaded entity updates every column in which the
\* entity object differs from the row: the row becomes the handler's object,
\* also where that object is a stale snapshot.
Row(u) == [email |-> u.email, password |-> u.password, verified |-> u.verified,
           role |-> u.role]
Entity(us, id) == [id |-> id, email |-> us[id].email, password |-> us[id].password,
                   verified |-> us[id].verified, role |-> us[id].role]

\* Repository<User>.findOne({ email })
FindByEmail(us, email) ==
  IF \E i \in DOMAIN us : us[i].email = email
  THEN Entity(us, CHOOSE i \in DOMAIN us : us[i].email = email)
  ELSE NoUser

\* Repository<Verification>.findOne({ code })
FindByCode(vs, code) ==
  IF \E v \in vs : v.code = code THEN CHOOSE v \in vs : v.code = code ELSE NoVerif

\* Mutant: the email column without its unique constraint.
EmailConflictOff(id, email) == FALSE

\* The users table's unique email column: a row write is rejected when another
\* row already holds the email.
EmailConflict(id, email) == \E i \in Ids : i # id /\ users[i].email = email

LiveCodes(vs, uid) == {v.code : v \in {w \in vs : w.user = uid}}

\* A handler that has produced its result resolves before another handler's
\* continuation is run: the return follows the last await in the same turn.
Running == \A q \in Procs : pc[q] # "done"

\* A call of an operation on a free handler slot.
Begin(p) ==
  /\ pc[p] = "idle"
  /\ \A q \in Procs : q < p => pc[q] # "idle"
  /\ Running
  /\ calls < MaxCalls
  /\ calls' = calls + 1

\* The continuation of handler p after the await labelled l.
Resume(p, l) ==
  /\ pc[p] = l
  /\ Running
  /\ UNCHANGED calls

Finish(p, r) ==
  /\ pc' = [pc EXCEPT ![p] = "done"]
  /\ result' = [result EXCEPT ![p] = r]

Goto(p, l) ==
  /\ pc' = [pc EXCEPT ![p] = l]
  /\ UNCHANGED result

Init ==
  /\ calls = 0
  /\ users = <<>>
  /\ verifications = {}
  /\ nextCode = 1
  /\ pc = [p \in Procs |-> "idle"]
  /\ op = [p \in Procs |-> ""]
  /\ arg = [p \in Procs |-> NoArg]
  /\ luser = [p \in Procs |-> NoUser]
  /\ lverif = [p \in Procs |-> NoVerif]
  /\ result = [p \in Procs |-> NoRes]
  /\ mailed = [p \in Procs |-> <<>>]
  /\ old = [p \in Procs |-> {}]
  /\ change = <<>>
  /\ lastAssign = <<>>
  /\ verifiedBy = <<>>
  /\ okCount = [c \in Codes |-> 0]
  /\ threw = [p \in Procs |-> FALSE]
  /\ mailFailed = [p \in Procs |-> FALSE]
  /\ wrote = [p \in Procs |-> FALSE]
  /\ stage =[p \in Procs |-> "none"]
  /\ req = [p \in Procs |-> NoReq]
  /\ ruser = [p \in Procs |-> NoUser]
  /\ nexts = [p \in Procs |-> 0]
  /\ resp = [p \in Procs |-> NoResp]
  /\ issued = {}

\* ------------------------------------------------------------ createAccount
\* Mutant: createAccount without the existing-user check.
CreateAccountNoCheck(p, email, password, role) ==
  /\ Begin(p)
  /\ op' = [op EXCEPT ![p] = "createAccount"]
  /\ arg' = [arg EXCEPT ![p] = [NoArg EXCEPT !.email = email, !.password = password,
                                             !.role = role]]
  /\ Goto(p, "ca_save")
  /\ UNCHANGED <<users, verifications, nextCode, luser, lverif, mailed, old, change,
                 lastAssign, verifiedBy, okCount>>

\* const existingUser = await this.users.findOne({ email }); if (existingUser) return ...
CreateAccount(p, email, password, role) ==
  /\ Begin(p)
  /\ op' = [op EXCEPT ![p] = "createAccount"]
  /\ arg' = [arg EXCEPT ![p] = [NoArg EXCEPT !.email = email, !.password = password,
                                             !.role = role]]
  /\ IF FindByEmail(users, email) # NoUser
     THEN Finish(p, Fail("User is already exist."))
     ELSE Goto(p, "ca_save")
  /\ UNCHANGED <<users, verifications, nextCode, luser, lverif, mailed, old, change,
                 lastAssign, verifiedBy, okCount>>

\* const user = await this.users.save(this.users.create({ email, password, role }));
CreateSave(p) ==
  /\ Resume(p, "ca_save")
  /\ IF EmailConflict(0, arg[p].email)
     THEN /\ Finish(p, Fail("Can not create an account."))
          /\ UNCHANGED <<users, luser, change, lastAssign, verifiedBy>>
     ELSE LET row == [email |-> arg[p].email, password |-> Hash(arg[p].password),
                      verified |-> FALSE, role |-> arg[p].role]
              id  == Len(users) + 1
          IN /\ users' = Append(users, row)
             /\ luser' = [luser EXCEPT ![p] = Entity(users', id)]
             /\ change' = Append(change, NoChange)
             /\ lastAssign' = Append(lastAssign, nextCode)
             /\ verifiedBy' = Append(verifiedBy, 0)
             /\ Goto(p, "ca_verif")
  /\ UNCHANGED <<verifications, nextCode, op, arg, lverif, mailed, old, okCount>>

\* Mutant: createAccount that issues the code but sends no mail.
CreateVerifNoMail(p) ==
  /\ Resume(p, "ca_verif")
  /\ LET v == [id |-> nextCode, code |-> nextCode, user |-> luser[p].id]
     IN /\ verifications' = verifications \cup {v}
        /\ lverif' = [lverif EXCEPT ![p] = v]
  /\ nextCode' = nextCode + 1
  /\ Finish(p, Ok)
  /\ UNCHANGED <<users, op, arg, luser, mailed, old, change, lastAssign, verifiedBy,
                 okCount>>

\* const { code } = await this.verifications.save(this.verifications.create({ user }));
\* await this.mailService.sendVerificationEmail(email, code); return { ok: true };
\* The mail call reads and writes nothing of the store and its boolean result is
\* dropped, so it is taken together with the insert that precedes it.
CreateVerif(p) ==
  /\ Resume(p, "ca_verif")
  /\ LET v == [id |-> nextCode, code |-> nextCode, user |-> luser[p].id]
     IN /\ verifications' = verifications \cup {v}
        /\ lverif' = [lverif EXCEPT ![p] = v]
        /\ mailed' = [mailed EXCEPT ![p] = Append(@, <<arg[p].email, v.code>>)]
  /\ nextCode' = nextCode + 1
  /\ Finish(p, Ok)
  /\ UNCHANGED <<users, op, arg, luser, old, change, lastAssign, verifiedBy, okCount>>

\* -------------------------------------------------------------------- login
\* Mutant: login that compares the plaintext with the stored column.
LoginPlainCompare(p, email, password) ==
  /\ Begin(p)
  /\ op' = [op EXCEPT ![p] = "login"]
  /\ arg' = [arg EXCEPT ![p] = [NoArg EXCEPT !.email = email, !.password = password]]
  /\ LET user == FindByEmail(users, email)
     IN /\ luser' = [luser EXCEPT ![p] =
                       [NoUser EXCEPT !.id = user.id, !.password = user.password]]
        /\ IF user = NoUser
           THEN Finish(p, Fail("User does not exist."))
           ELSE IF password # user.password
                THEN Finish(p, Fail("Wrong credentials."))
                ELSE Finish(p, OkToken(Sign(user.id)))
  /\ UNCHANGED <<users, verifications, nextCode, lverif, mailed, old, change,
                 lastAssign, verifiedBy, okCount>>

\* const user = await this.users.findOne({ email }, { select: ['id', 'password'] });
\* if (!user) ...; if (!(await user.checkPassword(password))) ...; sign(user.id)
\* checkPassword and sign work on the handler's own objects only, so the whole
\* handler is the one store read.
Login(p, email, password) ==
  /\ Begin(p)
  /\ op' = [op EXCEPT ![p] = "login"]
  /\ arg' = [arg EXCEPT ![p] = [NoArg EXCEPT !.email = email, !.password = password]]
  /\ LET user == FindByEmail(users, email)
     IN /\ luser' = [luser EXCEPT ![p] =
                       [NoUser EXCEPT !.id = user.id, !.password = user.password]]
        /\ IF user = NoUser
           THEN Finish(p, Fail("User does not exist."))
           ELSE IF ~CheckPassword(password, user.password)
                THEN Finish(p, Fail("Wrong credentials."))
                ELSE Finish(p, OkToken(Sign(user.id)))
  /\ UNCHANGED <<users, verifications, nextCode, lverif, mailed, old, change,
                 lastAssign, verifiedBy, okCount>>

\* -------------------------------------------------------------- editProfile
\* Mutant: editProfile that assigns the email without resetting verified.
EditProfileKeepVerified(p, userId, email, password) ==
  /\ Begin(p)
  /\ userId \in Ids
  /\ op' = [op EXCEPT ![p] = "editProfile"]
  /\ arg' = [arg EXCEPT ![p] = [NoArg EXCEPT !.userId = userId, !.email = email,
                                             !.password = password]]
  /\ LET user == Entity(users, userId)
     IN IF email # ""
        THEN /\ luser' = [luser EXCEPT ![p] = [user EXCEPT !.email = email]]
             /\ old' = [old EXCEPT ![p] = LiveCodes(verifications, userId)]
             /\ Goto(p, "ep_delete")
        ELSE /\ luser' = [luser EXCEPT ![p] = user]
             /\ UNCHANGED old
             /\ Goto(p, "ep_save")
  /\ UNCHANGED <<users, verifications, nextCode, lverif, mailed, change,
                 lastAssign, verifiedBy, okCount>>

\* const user = await this.users.findOne(userId);
\* if (email) { user.email = email; user.verified = false; ...
EditProfile(p, userId, email, password) ==
  /\ Begin(p)
  /\ userId \in Ids
  /\ op' = [op EXCEPT ![p] = "editProfile"]
  /\ arg' = [arg EXCEPT ![p] = [NoArg EXCEPT !.userId = userId, !.email = email,
                                             !.password = password]]
  /\ LET user == Entity(users, userId)
     IN IF email # ""
        THEN /\ luser' = [luser EXCEPT ![p] =
                            [user EXCEPT !.email = email, !.verified = FALSE]]
             /\ old' = [old EXCEPT ![p] = LiveCodes(verifications, userId)]
             /\ Goto(p, "ep_delete")
        ELSE /\ luser' = [luser EXCEPT ![p] = user]
             /\ UNCHANGED old
             /\ Goto(p, "ep_save")
  /\ UNCHANGED <<users, verifications, nextCode, lverif, mailed, change,
                 lastAssign, verifiedBy, okCount>>

\* Mutant: editProfile that leaves the user's verifications in place.
EditDeleteSkip(p) ==
  /\ Resume(p, "ep_delete")
  /\ change' = [change EXCEPT ![luser[p].id] = NoChange]
  /\ Goto(p, "ep_verif")
  /\ UNCHANGED <<users, verifications, nextCode, op, arg, luser, lverif, mailed, old,
                 lastAssign, verifiedBy, okCount>>

\* Mutant: editProfile that deletes the verifications of every user.
EditDeleteAll(p) ==
  /\ Resume(p, "ep_delete")
  /\ verifications' = {}
  /\ change' = [change EXCEPT ![luser[p].id] = NoChange]
  /\ Goto(p, "ep_verif")
  /\ UNCHANGED <<users, nextCode, op, arg, luser, lverif, mailed, old,
                 lastAssign, verifiedBy, okCount>>

\* await this.verifications.delete({ user: { id: user.id } });
EditDelete(p) ==
  /\ Resume(p, "ep_delete")
  /\ verifications' = {v \in verifications : v.user # luser[p].id}
  /\ change' = [change EXCEPT ![luser[p].id] = NoChange]
  /\ Goto(p, "ep_verif")
  /\ UNCHANGED <<users, nextCode, op, arg, luser, lverif, mailed, old,
                 lastAssign, verifiedBy, okCount>>

\* const { code } = await this.verifications.save(this.verifications.create({ user }));
\* await this.mailService.sendVerificationEmail(email, code);
EditVerif(p) ==
  /\ Resume(p, "ep_verif")
  /\ LET v == [id |-> nextCode, code |-> nextCode, user |-> luser[p].id]
     IN /\ verifications' = verifications \cup {v}
        /\ lverif' = [lverif EXCEPT ![p] = v]
        /\ mailed' = [mailed EXCEPT ![p] = Append(@, <<arg[p].email, v.code>>)]
  /\ nextCode' = nextCode + 1
  /\ Goto(p, "ep_save")
  /\ UNCHANGED <<users, op, arg, luser, old, change, lastAssign, verifiedBy, okCount>>

\* if (password) { user.password = password; }  await this.users.save(user);
EditSave(p) ==
  /\ Resume(p, "ep_save")
  /\ LET user == IF arg[p].password # ""
                 THEN [luser[p] EXCEPT !.password = Hash(arg[p].password)]
                 ELSE luser[p]
     IN IF EmailConflict(user.id, user.email)
        THEN /\ Finish(p, Fail("Could not update profile."))
             /\ UNCHANGED <<users, luser, change, lastAssign>>
        ELSE /\ users' = [users EXCEPT ![user.id] = Row(user)]
             /\ luser' = [luser EXCEPT ![p] = user]
             /\ lastAssign' = IF arg[p].email # ""
                              THEN [lastAssign EXCEPT ![user.id] = lverif[p].code]
                              ELSE lastAssign
             /\ change' = IF arg[p].email # ""
                          THEN [change EXCEPT ![user.id] =
                                  [old |-> old[p], new |-> lverif[p].code]]
                          ELSE change
             /\ Finish(p, Ok)
  /\ UNCHANGED <<verifications, nextCode, op, arg, lverif, mailed, old,
                 verifiedBy, okCount>>

\* -------------------------------------------------------------- verifyEmail
\* Mutant: verifyEmail that answers {ok: true} when it finds no verification.
VerifyEmailNotFoundOk(p, code) ==
  /\ Begin(p)
  /\ op' = [op EXCEPT ![p] = "verifyEmail"]
  /\ arg' = [arg EXCEPT ![p] = [NoArg EXCEPT !.code = code]]
  /\ LET verification == FindByCode(verifications, code)
     IN IF verification = NoVerif
        THEN /\ Finish(p, Ok)
             /\ UNCHANGED <<luser, lverif>>
        ELSE /\ lverif' = [lverif EXCEPT ![p] = verification]
             /\ luser' = [luser EXCEPT ![p] =
                            [Entity(users, verification.user) EXCEPT !.verified = TRUE]]
             /\ Goto(p, "ve_save")
  /\ UNCHANGED <<users, verifications, nextCode, mailed, old, change,
                 lastAssign, verifiedBy, okCount>>

\* const verification = await this.verifications.findOne({ code }, { relations: ['user'] });
\* if (verification) { verification.user.verified = true; ...
VerifyEmail(p, code) ==
  /\ Begin(p)
  /\ op' = [op EXCEPT ![p] = "verifyEmail"]
  /\ arg' = [arg EXCEPT ![p] = [NoArg EXCEPT !.code = code]]
  /\ LET verification == FindByCode(verifications, code)
     IN IF verification = NoVerif
        THEN /\ Finish(p, Fail("Verification not found."))
             /\ UNCHANGED <<luser, lverif>>
        ELSE /\ lverif' = [lverif EXCEPT ![p] = verification]
             /\ luser' = [luser EXCEPT ![p] =
                            [Entity(users, verification.user) EXCEPT !.verified = TRUE]]
             /\ Goto(p, "ve_save")
  /\ UNCHANGED <<users, verifications, nextCode, mailed, old, change,
                 lastAssign, verifiedBy, okCount>>

\* Mutant: verifyEmail that saves the user without having set the flag.
VerifySaveNoFlag(p) ==
  /\ Resume(p, "ve_save")
  /\ users' = [users EXCEPT ![luser[p].id] =
                 [Row(luser[p]) EXCEPT !.verified = users[luser[p].id].verified]]
  /\ verifiedBy' = [verifiedBy EXCEPT ![luser[p].id] = lverif[p].code]
  /\ Goto(p, "ve_delete")
  /\ UNCHANGED <<verifications, nextCode, op, arg, luser, lverif, mailed, old, change,
                 lastAssign, okCount>>

\* await this.users.save(verification.user);
VerifySave(p) ==
  /\ Resume(p, "ve_save")
  /\ IF EmailConflict(luser[p].id, luser[p].email)
     THEN /\ Finish(p, Fail("Could not verify email."))
          /\ UNCHANGED <<users, verifiedBy>>
     ELSE /\ users' = [users EXCEPT ![luser[p].id] = Row(luser[p])]
          /\ verifiedBy' = [verifiedBy EXCEPT ![luser[p].id] = lverif[p].code]
          /\ Goto(p, "ve_delete")
  /\ UNCHANGED <<verifications, nextCode, op, arg, luser, lverif, mailed, old, change,
                 lastAssign, okCount>>

\* Mutant: verifyEmail that does not delete the verification.
VerifyDeleteSkip(p) ==
  /\ Resume(p, "ve_delete")
  /\ okCount' = [okCount EXCEPT ![lverif[p].code] = @ + 1]
  /\ Finish(p, Ok)
  /\ UNCHANGED <<users, verifications, nextCode, op, arg, luser, lverif, mailed, old,
                 change, lastAssign, verifiedBy>>

\* await this.verifications.delete(verification.id); return { ok: true };
VerifyDelete(p) ==
  /\ Resume(p, "ve_delete")
  /\ verifications' = {v \in verifications : v.id # lverif[p].id}
  /\ okCount' = [okCount EXCEPT ![lverif[p].code] = @ + 1]
  /\ Finish(p, Ok)
  /\ UNCHANGED <<users, nextCode, op, arg, luser, lverif, mailed, old, change,
                 lastAssign, verifiedBy>>

\* ------------------------------------------------------------------ return
\* The promise resolves; the handler's slot takes the next request.
Return(p) ==
  /\ pc[p] = "done"
  /\ UNCHANGED calls
  /\ pc' = [pc EXCEPT ![p] = "idle"]
  /\ op' = [op EXCEPT ![p] = ""]
  /\ arg' = [arg EXCEPT ![p] = NoArg]
  /\ luser' = [luser EXCEPT ![p] = NoUser]
  /\ lverif' = [lverif EXCEPT ![p] = NoVerif]
  /\ result' = [result EXCEPT ![p] = NoRes]
  /\ mailed' = [mailed EXCEPT ![p] = <<>>]
  /\ old' = [old EXCEPT ![p] = {}]
  /\ UNCHANGED <<users, verifications, nextCode, change, lastAssign, verifiedBy, okCount>>

\* The service called directly (as its unit tests do): no fault is injected
\* and no request pipeline is involved.
Direct == UNCHANGED <<faultvars, reqvars>>

Next ==
  \/ \E p \in Procs, e \in Emails, w \in CreatePasswords, r \in Roles :
       CreateAccount(p, e, w, r) /\ Direct
  \/ \E p \in Procs : CreateSave(p) /\ Direct
  \/ \E p \in Procs : CreateVerif(p) /\ Direct
  \/ \E p \in Procs, e \in Emails, w \in LoginPasswords : Login(p, e, w) /\ Direct
  \/ \E p \in Procs, u \in Ids, e \in Emails \cup {""}, w \in EditPasswords \cup {""} :
       EditProfile(p, u, e, w) /\ Direct
  \/ \E p \in Procs : EditDelete(p) /\ Direct
  \/ \E p \in Procs : EditVerif(p) /\ Direct
  \/ \E p \in Procs : EditSave(p) /\ Direct
  \/ \E p \in Procs, c \in Codes : VerifyEmail(p, c) /\ Direct
  \/ \E p \in Procs : VerifySave(p) /\ Direct
  \/ \E p \in Procs : VerifyDelete(p) /\ Direct
  \/ \E p \in Procs : Return(p) /\ Direct

Spec == Init /\ [][Next]_vars

\* The same handlers called one at a time: a call is made only when no other
\* handler is in flight.
Quiet == \A q \in Procs : pc[q] = "idle"

NextSeq ==
  \/ \E p \in Procs, e \in Emails, w \in CreatePasswords, r \in Roles :
       Quiet /\ CreateAccount(p, e, w, r) /\ Direct
  \/ \E p \in Procs : CreateSave(p) /\ Direct
  \/ \E p \in Procs : CreateVerif(p) /\ Direct
  \/ \E p \in Procs, e \in Emails, w \in LoginPasswords : Quiet /\ Login(p, e, w) /\ Direct
  \/ \E p \in Procs, u \in Ids, e \in Emails \cup {""}, w \in EditPasswords \cup {""} :
       Quiet /\ EditProfile(p, u, e, w) /\ Direct
  \/ \E p \in Procs : EditDelete(p) /\ Direct
  \/ \E p \in Procs : EditVerif(p) /\ Direct
  \/ \E p \in Procs : EditSave(p) /\ Direct
  \/ \E p \in Procs, c \in Codes : Quiet /\ VerifyEmail(p, c) /\ Direct
  \/ \E p \in Procs : VerifySave(p) /\ Direct
  \/ \E p \in Procs : VerifyDelete(p) /\ Direct
  \/ \E p \in Procs : Return(p) /\ Direct

SpecSeq == Init /\ [][NextSeq]_vars

\* ------------------------------------------------------------------ findById
\* Repository<User>.findOneOrFail({ id }) inside findById's try block: the
\* result object it returns, found or not.
FindByIdResult(us, id) ==
  IF id \in DOMAIN us THEN OkUser(Entity(us, id)) ELSE Fail("User not found.")

\* const user = await this.users.findOneOrFail({ id }); return { ok: true, user };
\* findOneOrFail rejects when no row has the id; the catch block answers.
FindById(p, id) ==
  /\ Begin(p)
  /\ op' = [op EXCEPT ![p] = "findById"]
  /\ arg' = [arg EXCEPT ![p] = [NoArg EXCEPT !.userId = id]]
  /\ Finish(p, FindByIdResult(users, id))
  /\ UNCHANGED <<users, verifications, nextCode, luser, lverif, mailed, old, change,
                 lastAssign, verifiedBy, okCount>>

\* ------------------------------------------------------------------- faults
Operations == {"findById", "createAccount", "login", "editProfile", "verifyEmail"}
\* Positions at which a handler is suspended in a store call.
Awaits == {"ca_save", "ca_verif", "ep_delete", "ep_verif", "ep_save", "ve_save",
           "ve_delete"}

\* The result each operation's catch block returns.
CatchError(o) ==
  CASE o = "findById"      -> "User not found."
    [] o = "createAccount" -> "Can not create an account."
    [] o = "login"         -> "Can not log user in."
    [] o = "editProfile"   -> "Could not update profile."
    [] o = "verifyEmail"   -> "Could not verify email."

\* Mutant: the exception of the first store call leaves the operation.
CallThrowsUncaught(p, o) ==
  /\ Begin(p)
  /\ op' = [op EXCEPT ![p] = o]
  /\ arg' = [arg EXCEPT ![p] = NoArg]
  /\ Finish(p, NoRes)
  /\ threw' = [threw EXCEPT ![p] = TRUE]
  /\ UNCHANGED <<users, verifications, nextCode, luser, lverif, mailed, old, change,
                 lastAssign, verifiedBy, okCount, mailFailed, wrote>>

\* The first store call of operation o (its findOne / findOneOrFail) throws:
\* every operation's body is one try block whose catch returns the result.
CallThrows(p, o) ==
  /\ Begin(p)
  /\ op' = [op EXCEPT ![p] = o]
  /\ arg' = [arg EXCEPT ![p] = NoArg]
  /\ Finish(p, Fail(CatchError(o)))
  /\ threw' = [threw EXCEPT ![p] = TRUE]
  /\ UNCHANGED <<users, verifications, nextCode, luser, lverif, mailed, old, change,
                 lastAssign, verifiedBy, okCount, mailFailed, wrote>>

\* A later store call (save / delete) of the running operation throws instead of
\* taking effect.
StoreThrows(p) ==
  /\ pc[p] \in Awaits
  /\ Running
  /\ Finish(p, Fail(CatchError(op[p])))
  /\ threw' = [threw EXCEPT ![p] = TRUE]
  /\ UNCHANGED <<calls, users, verifications, nextCode, op, arg, luser, lverif, mailed,
                 old, change, lastAssign, verifiedBy, okCount, mailFailed, wrote>>

\* The running operation has changed a table once one of its store calls has.
Wrote(p) == wrote' = [wrote EXCEPT ![p] = @ \/ store' # store]

\* A store call that ran: it threw exactly when the unique email column refused
\* the row.
Ran(p, refused) ==
  /\ threw' = [threw EXCEPT ![p] = refused]
  /\ Wrote(p)
  /\ UNCHANGED mailFailed

\* await this.mailService.sendVerificationEmail(email, code): sendEmail catches
\* the failure of the HTTP call and resolves to false; the handler drops the
\* value, so both outcomes continue alike.
Mailed(p, delivered) ==
  /\ mailFailed' = [mailFailed EXCEPT ![p] = ~delivered]
  /\ Wrote(p)
  /\ UNCHANGED threw

\* Mutant: createAccount that reports an undelivered mail as its own failure.
CreateVerifMailStrict(p, delivered) ==
  IF delivered
  THEN CreateVerif(p) /\ Mailed(p, TRUE)
  ELSE /\ Resume(p, "ca_verif")
       /\ Finish(p, Fail("Can not create an account."))
       /\ mailFailed' = [mailFailed EXCEPT ![p] = TRUE]
       /\ UNCHANGED <<users, verifications, nextCode, op, arg, luser, lverif, mailed,
                      old, change, lastAssign, verifiedBy, okCount, threw, wrote>>

\* createAccount's insert of the verification and its mail, with the mail's
\* outcome.
CreateVerifMail(p, delivered) == CreateVerif(p) /\ Mailed(p, delivered)

\* editProfile's insert of the verification and its mail, with the mail's outcome.
EditVerifMail(p, delivered) == EditVerif(p) /\ Mailed(p, delivered)

ReturnFault(p) ==
  /\ Return(p)
  /\ threw' = [threw EXCEPT ![p] = FALSE]
  /\ mailFailed' = [mailFailed EXCEPT ![p] = FALSE]
  /\ wrote' = [wrote EXCEPT ![p] = FALSE]

\* The operations called one at a time, with store calls that may throw and
\* mails that may fail.
NextFault ==
  \/ \E p \in Procs, i \in 1..MaxCalls :
       Quiet /\ FindById(p, i) /\ Ran(p, i \notin Ids) /\ UNCHANGED reqvars
  \/ \E p \in Procs, e \in Emails, w \in CreatePasswords, r \in Roles :
       Quiet /\ CreateAccount(p, e, w, r) /\ Ran(p, FALSE) /\ UNCHANGED reqvars
  \/ \E p \in Procs :
       CreateSave(p) /\ Ran(p, EmailConflict(0, arg[p].email)) /\ UNCHANGED reqvars
  \/ \E p \in Procs, d \in BOOLEAN :
       CreateVerifMail(p, d) /\ UNCHANGED reqvars
  \/ \E p \in Procs, e \in Emails, w \in LoginPasswords :
       Quiet /\ Login(p, e, w) /\ Ran(p, FALSE) /\ UNCHANGED reqvars
  \/ \E p \in Procs, u \in Ids, e \in Emails \cup {""}, w \in EditPasswords \cup {""} :
       Quiet /\ EditProfile(p, u, e, w) /\ Ran(p, FALSE) /\ UNCHANGED reqvars
  \/ \E p \in Procs : EditDelete(p) /\ Ran(p, FALSE) /\ UNCHANGED reqvars
  \/ \E p \in Procs, d \in BOOLEAN :
       EditVerifMail(p, d) /\ UNCHANGED reqvars
  \/ \E p \in Procs :
       EditSave(p) /\ Ran(p, EmailConflict(luser[p].id, luser[p].email))
                   /\ UNCHANGED reqvars
  \/ \E p \in Procs, c \in Codes :
       Quiet /\ VerifyEmail(p, c) /\ Ran(p, FALSE) /\ UNCHANGED reqvars
  \/ \E p \in Procs :
       VerifySave(p) /\ Ran(p, EmailConflict(luser[p].id, luser[p].email))
                     /\ UNCHANGED reqvars
  \/ \E p \in Procs : VerifyDelete(p) /\ Ran(p, FALSE) /\ UNCHANGED reqvars
  \/ \E p \in Procs, o \in Operations : Quiet /\ CallThrows(p, o) /\ UNCHANGED reqvars
  \/ \E p \in Procs : StoreThrows(p) /\ UNCHANGED reqvars
  \/ \E p \in Procs : ReturnFault(p) /\ UNCHANGED reqvars

SpecFault == Init /\ [][NextFault]_vars

\* --------------------------------------------------------- request pipeline
GuardedOps   == {"me", "userProfile", "editProfile"}
UnguardedOps == {"createAccount", "login", "verifyEmail"}

\* The inputs a request may carry for each operation.
Inputs(o) ==
  CASE o = "me"            -> {NoArg}
    [] o = "userProfile"   -> {[NoArg EXCEPT !.userId = i] : i \in 1..Cardinality(Emails)}
    [] o = "editProfile"   -> {[NoArg EXCEPT !.email = e, !.password = w] :
                                 e \in Emails \cup {""}, w \in EditPasswords \cup {""}}
    [] o = "createAccount" -> {[NoArg EXCEPT !.email = e, !.password = w, !.role = r] :
                                 e \in Emails, w \in CreatePasswords, r \in Roles}
    [] o = "login"         -> {[NoArg EXCEPT !.email = e, !.password = w] :
                                 e \in Emails, w \in LoginPasswords}
    [] o = "verifyEmail"   -> {[NoArg EXCEPT !.code = c] : c \in Codes}

Requests ==
  UNION {{[jwt |-> FALSE, token |-> NoToken, op |-> o, input |-> i] : i \in Inputs(o)}
           \cup {[jwt |-> TRUE, token |-> t, op |-> o, input |-> i] :
                   t \in Tokens, i \in Inputs(o)}
         : o \in GuardedOps \cup UnguardedOps}

\* The same request without its x-jwt header.
Tokenless(r) == [r EXCEPT !.jwt = FALSE, !.token = NoToken]

\* A request arrives; requests are taken one at a time.
Arrive(p, r) ==
  /\ Quiet
  /\ \A q \in Procs : stage[q] = "none"
  /\ \A q \in Procs : q >= p
  /\ calls < MaxCalls
  /\ req' = [req EXCEPT ![p] = r]
  /\ stage' = [stage EXCEPT ![p] = "mw"]
  /\ UNCHANGED <<svcvars, faultvars, ruser, nexts, resp, issued>>

\* Mutant: a middleware that answers a token it cannot verify with an error.
UseReqRejects(p, r) ==
  /\ stage[p] = "mw"
  /\ IF r.jwt /\ ~Verify(r.token).valid
     THEN /\ stage' = [stage EXCEPT ![p] = "sent"]
          /\ resp' = [resp EXCEPT ![p] = [NoResp EXCEPT !.error = "Unauthorized"]]
          /\ UNCHANGED nexts
     ELSE /\ IF r.jwt /\ Verify(r.token).object /\ Verify(r.token).hasId
             THEN /\ stage' = [stage EXCEPT ![p] = "mw_find"]
                  /\ UNCHANGED nexts
             ELSE /\ stage' = [stage EXCEPT ![p] = "route"]
                  /\ nexts' = [nexts EXCEPT ![p] = @ + 1]
          /\ UNCHANGED resp
  /\ UNCHANGED <<svcvars, faultvars, req, ruser, issued>>

\* JwtMiddleware.use up to its await: without an x-jwt header, or when verify
\* throws (caught at line 29), or when the payload is not an object with an
\* id, nothing is attached and next() is called; otherwise findById is awaited.
UseReq(p, r) ==
  /\ stage[p] = "mw"
  /\ IF r.jwt /\ Verify(r.token).valid /\ Verify(r.token).object /\ Verify(r.token).hasId
     THEN /\ stage' = [stage EXCEPT ![p] = "mw_find"]
          /\ UNCHANGED nexts
     ELSE /\ stage' = [stage EXCEPT ![p] = "route"]
          /\ nexts' = [nexts EXCEPT ![p] = @ + 1]
  /\ UNCHANGED <<svcvars, faultvars, req, ruser, resp, issued>>

Use(p) == UseReq(p, req[p])

\* Mutant: next() is called only when the user was found.
UseFindNextIfOk(p) ==
  /\ stage[p] = "mw_find"
  /\ LET found == FindByIdResult(users, Verify(req[p].token).id)
     IN /\ ruser' = [ruser EXCEPT ![p] = IF found.ok THEN found.user ELSE NoUser]
        /\ nexts' = [nexts EXCEPT ![p] = IF found.ok THEN @ + 1 ELSE @]
  /\ stage' = [stage EXCEPT ![p] = "route"]
  /\ UNCHANGED <<svcvars, faultvars, req, resp, issued>>

\* Mutant: a lookup that falls back to the first stored user.
UseFindFirst(p) ==
  /\ stage[p] = "mw_find"
  /\ LET found == FindByIdResult(users, Verify(req[p].token).id)
     IN ruser' = [ruser EXCEPT ![p] = IF found.ok THEN found.user
                                      ELSE IF Ids # {} THEN Entity(users, 1)
                                      ELSE NoUser]
  /\ nexts' = [nexts EXCEPT ![p] = @ + 1]
  /\ stage' = [stage EXCEPT ![p] = "route"]
  /\ UNCHANGED <<svcvars, faultvars, req, resp, issued>>

\* Mutant: a lookup that ignores the id of the payload.
UseFindOne(p) ==
  /\ stage[p] = "mw_find"
  /\ LET found == FindByIdResult(users, 1)
     IN ruser' = [ruser EXCEPT ![p] = IF found.ok THEN found.user ELSE NoUser]
  /\ nexts' = [nexts EXCEPT ![p] = @ + 1]
  /\ stage' = [stage EXCEPT ![p] = "route"]
  /\ UNCHANGED <<svcvars, faultvars, req, resp, issued>>

\* Mutant: a lookup that answers only the first time it is asked for a request.
UseFindOnce(p) ==
  /\ stage[p] = "mw_find"
  /\ LET found == FindByIdResult(users, Verify(req[p].token).id)
     IN ruser' = [ruser EXCEPT ![p] = IF found.ok /\ nexts[p] = 0 THEN found.user
                                      ELSE NoUser]
  /\ nexts' = [nexts EXCEPT ![p] = @ + 1]
  /\ stage' = [stage EXCEPT ![p] = "route"]
  /\ UNCHANGED <<svcvars, faultvars, req, resp, issued>>

\* const { user, ok } = await this.userService.findById(decodedToken.id);
\* if (ok) { req['user'] = user; }  next();
UseFind(p) ==
  /\ stage[p] = "mw_find"
  /\ LET found == FindByIdResult(users, Verify(req[p].token).id)
     IN ruser' = [ruser EXCEPT ![p] = IF found.ok THEN found.user ELSE NoUser]
  /\ nexts' = [nexts EXCEPT ![p] = @ + 1]
  /\ stage' = [stage EXCEPT ![p] = "route"]
  /\ UNCHANGED <<svcvars, faultvars, req, resp, issued>>

\* Mutant: a guard that lets every request through.
CanActivateAll(u) == TRUE

\* AuthGuard.canActivate: a guarded operation runs only for a request that has
\* an identity attached.
CanActivate(u) == u # NoUser

\* The request reached the resolver method of operation o: the operation is not
\* guarded, or its guard let the request through.
Routed(p, o) ==
  /\ stage[p] = "route"
  /\ req[p].op = o
  /\ o \in GuardedOps => CanActivate(ruser[p])

\* The guard refuses the request with the framework's Forbidden error; the
\* resolver method is not called.
Forbid(p) ==
  /\ stage[p] = "route"
  /\ req[p].op \in GuardedOps
  /\ ~CanActivate(ruser[p])
  /\ resp' = [resp EXCEPT ![p] = Forbidden]
  /\ stage' = [stage EXCEPT ![p] = "sent"]
  /\ UNCHANGED <<svcvars, faultvars, req, ruser, nexts, issued>>

\* me(@AuthUser() authUser) { return authUser; }
Me(p) ==
  /\ Routed(p, "me")
  /\ resp' = [resp EXCEPT ![p] = [NoResp EXCEPT !.user = ruser[p]]]
  /\ stage' = [stage EXCEPT ![p] = "sent"]
  /\ UNCHANGED <<svcvars, faultvars, req, ruser, nexts, issued>>

\* The resolver methods that call the service, as functions of the request r
\* and of the identity u the guard passes on.
ResolveUserProfile(p, r) == FindById(p, r.input.userId)
ResolveEditProfile(p, r, u) == EditProfile(p, u.id, r.input.email, r.input.password)
ResolveCreateAccount(p, r) ==
  CreateAccount(p, r.input.email, r.input.password, r.input.role)
ResolveLogin(p, r) == Login(p, r.input.email, r.input.password)
ResolveVerifyEmail(p, r) == VerifyEmail(p, r.input.code)

\* The service has been called for the request.
InBody(p) ==
  /\ stage' = [stage EXCEPT ![p] = "body"]
  /\ UNCHANGED <<faultvars, req, ruser, nexts, resp>>

\* A step of the service on behalf of the request in flight.
Serving == UNCHANGED <<faultvars, reqvars>>

\* The token of a successful login goes to the client that logged in as the
\* user with the email.
Issue(p) ==
  issued' = IF result'[p].ok
            THEN issued \cup {[token |-> result'[p].token, user |-> luser'[p].id,
                                email |-> arg'[p].email]}
            ELSE issued

\* The resolver's promise resolves: its value is the response.
Respond(p) ==
  /\ stage[p] = "body"
  /\ Return(p)
  /\ resp' = [resp EXCEPT ![p] = [NoResp EXCEPT !.result = result[p]]]
  /\ stage' = [stage EXCEPT ![p] = "sent"]
  /\ UNCHANGED <<faultvars, req, ruser, nexts, issued>>

\* Mutant: the identity of the request stays attached for the next one.
CloseKeepUser(p) ==
  /\ stage[p] = "sent"
  /\ stage' = [stage EXCEPT ![p] = "none"]
  /\ req' = [req EXCEPT ![p] = NoReq]
  /\ nexts' = [nexts EXCEPT ![p] = 0]
  /\ resp' = [resp EXCEPT ![p] = NoResp]
  /\ UNCHANGED <<svcvars, faultvars, ruser, issued>>

\* The response has been sent; nothing of the request is kept.
Close(p) ==
  /\ stage[p] = "sent"
  /\ stage' = [stage EXCEPT ![p] = "none"]
  /\ req' = [req EXCEPT ![p] = NoReq]
  /\ ruser' = [ruser EXCEPT ![p] = NoUser]
  /\ nexts' = [nexts EXCEPT ![p] = 0]
  /\ resp' = [resp EXCEPT ![p] = NoResp]
  /\ UNCHANGED <<svcvars, faultvars, issued>>

NextReq ==
  \/ \E p \in Procs, r \in Requests : Arrive(p, r)
  \/ \E p \in Procs : Use(p)
  \/ \E p \in Procs : UseFind(p)
  \/ \E p \in Procs : Forbid(p)
  \/ \E p \in Procs : Me(p)
  \/ \E p \in Procs :
       Routed(p, "userProfile") /\ ResolveUserProfile(p, req[p]) /\ InBody(p)
                                /\ UNCHANGED issued
  \/ \E p \in Procs :
       Routed(p, "editProfile") /\ ResolveEditProfile(p, req[p], ruser[p]) /\ InBody(p)
                                /\ UNCHANGED issued
  \/ \E p \in Procs :
       Routed(p, "createAccount") /\ ResolveCreateAccount(p, req[p]) /\ InBody(p)
                                  /\ UNCHANGED issued
  \/ \E p \in Procs :
       Routed(p, "login") /\ ResolveLogin(p, req[p]) /\ InBody(p) /\ Issue(p)
  \/ \E p \in Procs :
       Routed(p, "verifyEmail") /\ ResolveVerifyEmail(p, req[p]) /\ InBody(p)
                                /\ UNCHANGED issued
  \/ \E p \in Procs : CreateSave(p) /\ Serving
  \/ \E p \in Procs : CreateVerif(p) /\ Serving
  \/ \E p \in Procs : EditDelete(p) /\ Serving
  \/ \E p \in Procs : EditVerif(p) /\ Serving
  \/ \E p \in Procs : EditSave(p) /\ Serving
  \/ \E p \in Procs : VerifySave(p) /\ Serving
  \/ \E p \in Procs : VerifyDelete(p) /\ Serving
  \/ \E p \in Procs : Respond(p)
  \/ \E p \in Procs : Close(p)

SpecReq == Init /\ [][NextReq]_vars

\* use is called once more for the request it has handed on, before anything
\* else runs: the request object is the one the first run left, the store is
\* the one the first run read.
UseAgain(p) ==
  /\ stage[p] = "route"
  /\ nexts[p] = 1
  /\ stage' = [stage EXCEPT ![p] = "mw"]
  /\ UNCHANGED <<svcvars, faultvars, req, ruser, nexts, resp, issued>>

NextTwice ==
  \/ NextReq
  \/ \E p \in Procs : UseAgain(p)

SpecTwice == Init /\ [][NextTwice]_vars

\* use has no loop and findById always resolves: a request in the middleware
\* leaves it.
SpecReqFair ==
  /\ SpecReq
  /\ WF_vars(\E p \in Procs : Use(p))
  /\ WF_vars(\E p \in Procs : UseFind(p))

\* ============================================================== properties
NotFound == Fail("Verification not found.")

\* Handler p took a step (exactly one handler moves in a step).
Moved(p) == pc'[p] # pc[p]
Called(p, o) == pc[p] = "idle" /\ Moved(p) /\ op'[p] = o
Returned(p, o) == pc[p] # "done" /\ pc'[p] = "done" /\ op'[p] = o

\* An editProfile call carrying an email, from its first store read until it
\* has returned.
Editing(p) == op[p] = "editProfile" /\ arg[p].email # "" /\ pc[p] # "idle"

\* C1: a verification code yields at most one {ok: true}: two verifyEmail
\* calls with the same live code, interleaved in any order, never both succeed.
C1_ExactlyOnce == \A c \in Codes : okCount[c] <= 1

\* C2 (as claimed): at every step boundary of an email-changing editProfile,
\* from its first store read on and after it, the edited user is never
\* unverified in the store while a code issued before the call is still live.
C2_NoOldCodeWhileUnverified ==
  \A p \in Procs :
    Editing(p) =>
      ~ ( /\ ~users[arg[p].userId].verified
          /\ old[p] \cap LiveCodes(verifications, arg[p].userId) # {} )

\* C2 (amended): the same, from the step at which editProfile has deleted the
\* user's verifications, which precedes its write of the email and the flag.
C2_NoOldCodeAfterDelete ==
  \A p \in Procs :
    (Editing(p) /\ pc[p] \in {"ep_verif", "ep_save", "done"}) =>
      ~ ( /\ ~users[arg[p].userId].verified
          /\ old[p] \cap LiveCodes(verifications, arg[p].userId) # {} )

\* An email change of an unverified user, whose code was live, has completed.
C2_Witness ==
  \E p \in Procs :
    /\ Editing(p) /\ pc[p] = "done" /\ result[p] = Ok
    /\ old[p] # {}
    /\ ~users[arg[p].userId].verified

\* C3: every user has at most one live verification code in every state.
C3_AtMostOneLiveCode ==
  \A u \in Ids : Cardinality(LiveCodes(verifications, u)) <= 1

\* C4: a user is stored as verified only through a verifyEmail that consumed
\* a code issued at or after the user's most recent email assignment (the
\* code of the email-changing editProfile itself, or any code issued since
\* the registration stored the user).
C4_VerifiedByCurrentCode ==
  \A u \in Ids :
    users[u].verified => (verifiedBy[u] # 0 /\ verifiedBy[u] >= lastAssign[u])
\* C5: after an email change of user u has completed (and before another
\* edit of u begins), verifyEmail with a code that was live before the change
\* returns "Verification not found." and writes no user, and verifyEmail with
\* the code the change issued, presented for the first time, finds it, returns
\* {ok: true} and stores u as verified.
C5_Step ==
  \A p \in Procs : \A u \in Ids :
    /\ (Called(p, "verifyEmail") /\ arg'[p].code \in change[u].old)
         => (pc'[p] = "done" /\ result'[p] = NotFound /\ users' = users)
    /\ (Called(p, "verifyEmail") /\ arg'[p].code = change[u].new
          /\ okCount[change[u].new] = 0)
         => pc'[p] = "ve_save"
    /\ (Returned(p, "verifyEmail") /\ pc[p] # "idle"
          /\ lverif[p].code = change[u].new)
         => (result'[p] = Ok /\ users'[u].verified)

C5_OldThenNewCode == [][C5_Step]_vars

\* The code issued by an email change that replaced a live code was verified.
C5_Witness ==
  \E p \in Procs : \E u \in Ids :
    /\ pc[p] = "done" /\ op[p] = "verifyEmail" /\ result[p] = Ok
    /\ change[u].old # {}
    /\ arg[p].code = change[u].new
    /\ users[u].verified

\* C6: when verifyEmail(c) returns {ok: true} the referenced user is stored
\* verified and c is gone from the store; any verifyEmail(c) called after such
\* a return answers "Verification not found.".
C6_Step ==
  \A p \in Procs :
    /\ (Returned(p, "verifyEmail") /\ result'[p].ok)
         => /\ users'[lverif'[p].user].verified
            /\ FindByCode(verifications', arg'[p].code) = NoVerif
    /\ (Called(p, "verifyEmail") /\ okCount[arg'[p].code] > 0)
         => (pc'[p] = "done" /\ result'[p] = NotFound)

C6_SingleUse == [][C6_Step]_vars

\* A consumed code was presented again and refused.
C6_Witness ==
  \E p \in Procs :
    /\ pc[p] = "done" /\ op[p] = "verifyEmail"
    /\ okCount[arg[p].code] = 1
    /\ result[p] = NotFound

\* C7: createAccount whose email belongs to a stored user returns
\* "User is already exist." at once; it writes no user and no verification
\* and sends no mail.
C7_Step ==
  \A p \in Procs :
    (Called(p, "createAccount") /\ \E i \in Ids : users[i].email = arg'[p].email)
      => /\ pc'[p] = "done"
         /\ result'[p] = Fail("User is already exist.")
         /\ users' = users /\ verifications' = verifications
         /\ nextCode' = nextCode
         /\ mailed'[p] = <<>>

C7_ExistingEmailRejected == [][C7_Step]_vars

C7_Witness ==
  \E p \in Procs :
    /\ pc[p] = "done" /\ op[p] = "createAccount"
    /\ result[p] = Fail("User is already exist.")

C9_Step ==
  \A p \in Procs :
    /\ (Called(p, "createAccount") /\ ~ \E i \in Ids : users[i].email = arg'[p].email)
         => (pc'[p] = "ca_save" /\ users' = users /\ verifications' = verifications
             /\ mailed'[p] = <<>>)
    /\ (pc[p] = "ca_save" /\ Moved(p))
         => /\ pc'[p] = "ca_verif"
            /\ users' = Append(users, [email |-> arg[p].email,
                                       password |-> Hash(arg[p].password),
                                       verified |-> FALSE, role |-> arg[p].role])
            /\ verifications' = verifications
            /\ mailed'[p] = <<>>
    /\ (pc[p] = "ca_verif" /\ Moved(p))
         => /\ pc'[p] = "done" /\ result'[p] = Ok
            /\ users' = users
            /\ users[Len(users)].email = arg[p].email
            /\ \E v \in verifications' :
                 /\ v \notin verifications
                 /\ verifications' = verifications \cup {v}
                 /\ v.user = Len(users)
                 /\ FindByCode(verifications, v.code) = NoVerif
                 /\ mailed'[p] = << <<arg[p].email, v.code>> >>

C9_CreatesUserCodeMail == [][C9_Step]_vars

C9_Witness ==
  \E p \in Procs :
    /\ pc[p] = "done" /\ op[p] = "createAccount" /\ result[p] = Ok
    /\ users[luser[p].id].email = arg[p].email
    /\ lverif[p] \in verifications
    /\ mailed[p] = << <<arg[p].email, lverif[p].code>> >>

\* C10: login answers from the one store read: "User does not exist." when no
\* user has the email, "Wrong credentials." without a token when the password
\* does not match the stored hash of the user with that email, and otherwise
\* {ok: true} with the token signed for that user's id; it writes nothing.
LoginExpected(email, password) ==
  IF ~ \E i \in Ids : users[i].email = email
  THEN Fail("User does not exist.")
  ELSE LET i == CHOOSE k \in Ids : users[k].email = email
       IN IF users[i].password = Hash(password)
          THEN OkToken(Sign(i))
          ELSE Fail("Wrong credentials.")

C10_Step ==
  \A p \in Procs :
    Called(p, "login")
      => /\ pc'[p] = "done"
         /\ result'[p] = LoginExpected(arg'[p].email, arg'[p].password)
         /\ users' = users /\ verifications' = verifications

C10_Login == [][C10_Step]_vars

\* Both a successful login and a refused password occur.
C10_Witness ==
  \E p \in Procs :
    /\ pc[p] = "done" /\ op[p] = "login"
    /\ result[p] = Fail("Wrong credentials.")
    /\ \E i \in Ids : users[i].email = arg[p].email
                      /\ users[i].password # Hash(arg[p].password)

\* C19: verifyEmail with a code that no stored verification carries returns
\* "Verification not found." from its one store read; no user row and no
\* verification changes.
C19_Step ==
  \A p \in Procs :
    (Called(p, "verifyEmail") /\ ~ \E v \in verifications : v.code = arg'[p].code)
      => /\ pc'[p] = "done"
         /\ result'[p] = NotFound
         /\ users' = users
         /\ verifications' = verifications

C19_UnknownCodeRefused == [][C19_Step]_vars

\* A code that was never issued was refused while an unverified user with a
\* live code is stored.
C19_Witness ==
  \E p \in Procs :
    /\ pc[p] = "done" /\ op[p] = "verifyEmail" /\ result[p] = NotFound
    /\ arg[p].code >= nextCode
    /\ \E u \in Ids : ~users[u].verified /\ LiveCodes(verifications, u) # {}

\* C17: an editProfile call that carries an email deletes, in one store call,
\* every verification of the user; then inserts exactly one verification, of
\* that user and with a code no stored verification carries, and sends one
\* mail with the new email and that code; and when it returns {ok: true} its
\* last store call has left the user stored with the new email and
\* verified = false, none of the codes that were live for the user when the
\* call read it is live, and that one mail is all it has sent.
C17_Step ==
  \A p \in Procs :
    (op[p] = "editProfile" /\ arg[p].email # "" /\ Moved(p)) =>
      LET u == arg[p].userId
      IN /\ pc[p] = "ep_delete"
              => /\ LiveCodes(verifications', u) = {}
                 /\ verifications' = {v \in verifications : v.user # u}
                 /\ mailed'[p] = <<>>
         /\ pc[p] = "ep_verif"
              => \E v \in verifications' :
                   /\ v \notin verifications
                   /\ verifications' = verifications \cup {v}
                   /\ v.user = u
                   /\ FindByCode(verifications, v.code) = NoVerif
                   /\ v.code \notin old[p]
                   /\ mailed'[p] = << <<arg[p].email, v.code>> >>
         /\ (pc'[p] = "done" /\ result'[p].ok)
              => /\ pc[p] = "ep_save"
                 /\ users'[u].email = arg[p].email
                 /\ ~users'[u].verified
                 /\ old[p] \cap LiveCodes(verifications', u) = {}
                 /\ mailed'[p] = << <<arg[p].email, lverif[p].code>> >>

C17_EmailChange == [][C17_Step]_vars

\* A verified user changed to another email: the flag is reset and the one live
\* code is the mailed one.
C17_Witness ==
  \E p \in Procs :
    /\ pc[p] = "done" /\ op[p] = "editProfile" /\ result[p] = Ok
    /\ arg[p].email # ""
    /\ verifiedBy[arg[p].userId] # 0
    /\ ~users[arg[p].userId].verified
    /\ users[arg[p].userId].email = arg[p].email
    /\ mailed[p] = << <<arg[p].email, lverif[p].code>> >>
    /\ LiveCodes(verifications, arg[p].userId) = {lverif[p].code}

\* C18: no store call of an editProfile that carries only a password changes
\* the stored email or verified flag of the user, or any verification, or
\* sends a mail; the call returns {ok: true}.
C18_Step ==
  \A p \in Procs :
    (op[p] = "editProfile" /\ arg[p].email = "" /\ arg[p].password # "" /\ Moved(p)) =>
      LET u == arg[p].userId
      IN /\ users'[u].email = users[u].email
         /\ users'[u].verified = users[u].verified
         /\ verifications' = verifications
         /\ mailed'[p] = <<>>
         /\ pc'[p] = "done" => result'[p] = Ok

C18_PasswordOnly == [][C18_Step]_vars

\* C15: in every operation, a store call that throws makes the operation
\* return {ok: false} with the message of the operation's catch block; an
\* operation never ends without a result object.
C15_Step ==
  \A p \in Procs :
    /\ (threw'[p] /\ ~threw[p])
         => /\ pc'[p] = "done"
            /\ result'[p] = Fail(CatchError(op'[p]))
    /\ pc'[p] = "done" => (result'[p].ok \/ result'[p].error # "")

C15_ThrowBecomesResult == [][C15_Step]_vars

\* editProfile's users.save threw after the new code had been issued and mailed.
C15_Witness ==
  \E p \in Procs :
    /\ pc[p] = "done" /\ op[p] = "editProfile" /\ threw[p]
    /\ lverif[p] \in verifications
    /\ result[p] = Fail("Could not update profile.")

\* C16: a mail that is not delivered changes nothing: createAccount returns
\* {ok: true} with the created user and the issued code stored, and an
\* email-changing editProfile none of whose store calls throws returns
\* {ok: true} with the new email, verified = false and the issued code stored.
C16_Step ==
  \A p \in Procs :
    /\ (pc[p] = "ca_verif" /\ Moved(p) /\ mailFailed'[p])
         => /\ pc'[p] = "done" /\ result'[p] = Ok
            /\ users'[luser[p].id].email = arg[p].email
            /\ ~users'[luser[p].id].verified
            /\ \E v \in verifications' :
                 /\ v.user = luser[p].id
                 /\ mailed'[p] = << <<arg[p].email, v.code>> >>
    /\ (pc[p] = "ep_verif" /\ Moved(p) /\ mailFailed'[p])
         => pc'[p] = "ep_save" /\ lverif'[p] \in verifications'
    /\ (pc[p] = "ep_save" /\ Moved(p) /\ mailFailed[p] /\ ~threw'[p])
         => /\ pc'[p] = "done" /\ result'[p] = Ok
            /\ users'[arg[p].userId].email = arg[p].email
            /\ ~users'[arg[p].userId].verified
            /\ lverif[p] \in verifications'
            /\ lverif[p].user = arg[p].userId

C16_MailFailureIgnored == [][C16_Step]_vars

\* An email-changing editProfile has returned {ok: true} after an undelivered
\* mail; the new email and the issued code are stored.
C16_Witness ==
  \E p \in Procs :
    /\ pc[p] = "done" /\ op[p] = "editProfile" /\ mailFailed[p] /\ result[p] = Ok
    /\ users[arg[p].userId].email = arg[p].email
    /\ lverif[p] \in verifications

\* C11: a request for a guarded operation that reaches the resolver without an
\* identity is answered with the Forbidden error in its next step, whatever the
\* operation; the service is not called and nothing of its state changes.
C11_Step ==
  \A p \in Procs :
    (stage[p] = "route" /\ req[p].op \in GuardedOps /\ ruser[p] = NoUser
       /\ stage'[p] # stage[p])
      => /\ stage'[p] = "sent"
         /\ resp'[p] = Forbidden
         /\ svcvars' = svcvars

C11_GuardForbids == [][C11_Step]_vars

\* editProfile was refused for a request whose token names no stored user, while
\* a user is stored.
C11_Witness ==
  \E p \in Procs :
    /\ stage[p] = "sent" /\ resp[p] = Forbidden
    /\ req[p].op = "editProfile" /\ req[p].jwt /\ req[p].token = Sign(2)
    /\ Len(users) = 1

\* C12: the middleware answers no request itself: every step it takes leaves
\* the response empty, it has called next() exactly once when the request goes
\* on to the resolver and not before, nothing calls next() afterwards, and
\* every request that enters it goes on to the resolver.
C12_Step ==
  \A p \in Procs :
    /\ (stage[p] \in {"mw", "mw_find"} /\ stage'[p] # stage[p])
         => /\ stage'[p] \in {"mw_find", "route"}
            /\ resp'[p] = NoResp
            /\ stage'[p] = "mw_find" => nexts'[p] = 0
            /\ stage'[p] = "route" => nexts'[p] = 1
    /\ (stage[p] \in {"route", "body"}) => nexts'[p] = nexts[p]

C12_NextOnce ==
  /\ [][C12_Step]_vars
  /\ \A p \in Procs : (stage[p] = "mw") ~> (stage[p] = "route" /\ nexts[p] = 1)

\* A request whose token names no stored user went on to the resolver.
C12_Witness ==
  \E p \in Procs :
    /\ stage[p] = "route" /\ nexts[p] = 1
    /\ req[p].jwt /\ Verify(req[p].token).hasId
    /\ Verify(req[p].token).id \notin Ids

\* C13: when the middleware hands the request on, the request carries an
\* identity exactly if it has an x-jwt header whose token verifies to an object
\* payload with an id for which findById returns ok, and the identity is then
\* the stored user with that id; before that, and in every other case, the
\* request carries none.
C13_Step ==
  \A p \in Procs :
    /\ (stage[p] \in {"mw", "mw_find"} /\ stage'[p] = "route")
         => LET d == Verify(req[p].token)
            IN IF req[p].jwt /\ d.valid /\ d.object /\ d.hasId
                  /\ FindByIdResult(users, d.id).ok
               THEN ruser'[p] = Entity(users, d.id) /\ ruser'[p].id = d.id
               ELSE ruser'[p] = NoUser
    /\ stage'[p] \in {"none", "mw", "mw_find"} => ruser'[p] = NoUser

C13_IdentityIff == [][C13_Step]_vars

\* An identity was attached for a valid token while tokens of other kinds are
\* possible: the second user's token resolved to the second user.
C13_Witness ==
  \E p \in Procs :
    /\ stage[p] = "route" /\ req[p].jwt /\ req[p].token = Sign(2)
    /\ Len(users) = 2
    /\ ruser[p] = Entity(users, 2)

\* C14: verify(sign(id)) is the payload {id} for every stored user id, and a
\* request that presents a token returned by a login of user u reaches the
\* resolver with the stored user u attached.
C14_TokenResolves ==
  /\ \A i \in Ids : Verify(Sign(i)).valid /\ Verify(Sign(i)).id = i
  /\ \A p \in Procs : \A t \in issued :
       (stage[p] = "route" /\ req[p].jwt /\ req[p].token = t.token)
         => (t.user \in Ids /\ ruser[p] = Entity(users, t.user))

\* The second user logged in and presented the token.
C14_Witness ==
  \E p \in Procs : \E t \in issued :
    /\ stage[p] = "route" /\ req[p].jwt /\ req[p].token = t.token
    /\ t.user = 2 /\ ruser[p].id = 2

\* C20: every step of a request for an unguarded operation whose x-jwt token
\* does not verify is the step the same request without the header takes from
\* the same state: the same middleware outcome, the same call of the service
\* with the same result and store changes, the same response.
Unverifiable(r) == r.jwt /\ ~Verify(r.token).valid

C20_Step ==
  \A p \in Procs :
    (Unverifiable(req[p]) /\ req[p].op \in UnguardedOps
       /\ (stage'[p] # stage[p] \/ Moved(p)))
      => LET r == Tokenless(req[p])
         IN /\ stage[p] = "mw" => UseReq(p, r)
            /\ stage[p] = "route"
                 => /\ ruser[p] = NoUser
                    /\ \/ r.op = "createAccount" /\ ResolveCreateAccount(p, r)
                       \/ r.op = "login" /\ ResolveLogin(p, r)
                       \/ r.op = "verifyEmail" /\ ResolveVerifyEmail(p, r)
                    /\ stage'[p] = "body"
            /\ stage[p] = "body"
                 => \/ CreateSave(p) \/ CreateVerif(p)
                    \/ VerifySave(p) \/ VerifyDelete(p)
                    \/ Respond(p)
            /\ stage[p] = "sent" => resp[p].error = ""

C20_BadTokenAsNoToken == [][C20_Step]_vars

\* A request with a forged token created an account.
C20_Witness ==
  \E p \in Procs :
    /\ stage[p] = "sent" /\ req[p].jwt /\ req[p].token = Forged
    /\ req[p].op = "createAccount" /\ resp[p].result = Ok
    /\ \E i \in Ids : users[i].email = req[p].input.email

\* C23: whenever no operation is in progress, every stored user whose verified
\* flag is false has a live verification code.
C23_UnverifiedHasCode ==
  Quiet => \A u \in Ids : ~users[u].verified => LiveCodes(verifications, u) # {}

\* C26: no step of an editProfile call for user u changes the row of another
\* user, adds a user, or deletes or inserts a verification of another user.
C26_Step ==
  \A p \in Procs :
    ((op[p] = "editProfile" \/ op'[p] = "editProfile") /\ Moved(p)) =>
      LET u == IF pc[p] = "idle" THEN arg'[p].userId ELSE arg[p].userId
      IN /\ Len(users') = Len(users)
         /\ \A j \in Ids \ {u} : users'[j] = users[j]
         /\ \A v \in verifications : v.user # u => v \in verifications'
         /\ \A v \in verifications' \ verifications : v.user = u

C26_OnlyOwnData == [][C26_Step]_vars

\* An email change of one user has completed while another user, unverified,
\* keeps its live code.
C26_Witness ==
  \E p \in Procs : \E j \in Ids :
    /\ pc[p] = "done" /\ op[p] = "editProfile" /\ result[p] = Ok
    /\ arg[p].email # ""
    /\ j # arg[p].userId
    /\ ~users[j].verified
    /\ LiveCodes(verifications, j) # {}
    /\ old[p] # {}

\* C22: a request starts without an identity, whatever the requests before it
\* carried, and the identity the middleware attaches for a token returned by
\* a login is the user's row as stored at the time of this request: the same
\* user, with the email the row holds now, also when the login used another.
C22_Step ==
  \A p \in Procs :
    /\ stage'[p] \in {"none", "mw"} => ruser'[p] = NoUser
    /\ \A t \in issued :
         (stage[p] \in {"mw", "mw_find"} /\ stage'[p] = "route"
            /\ req[p].jwt /\ req[p].token = t.token)
           => /\ ruser'[p].id = t.user
              /\ ruser'[p].email = users[t.user].email
              /\ ruser'[p] = Entity(users, t.user)

C22_ResolvedAfresh == [][C22_Step]_vars

\* A token returned by a login with the old email is presented after the email
\* change: the request carries the same user with the new email.
C22_Witness ==
  \E p \in Procs : \E t \in issued :
    /\ stage[p] = "route" /\ req[p].jwt /\ req[p].token = t.token
    /\ ruser[p].id = t.user
    /\ t.email # users[t.user].email
    /\ ruser[p].email = users[t.user].email

\* C21: a second run of the middleware on the request the first run handed on,
\* with the store as the first run read it, ends with the identity the first
\* run left: the same user, or none both times.
C21_Step ==
  \A p \in Procs :
    (nexts[p] = 1 /\ stage[p] \in {"mw", "mw_find"} /\ stage'[p] = "route")
      => /\ ruser'[p] = ruser[p]
         /\ ruser'[p] = IF FindByIdResult(users, Verify(req[p].token).id).ok /\ req[p].jwt
                        THEN Entity(users, Verify(req[p].token).id)
                        ELSE NoUser

C21_ResolutionIdempotent == [][C21_Step]_vars

\* The second run has ended with an identity attached.
C21_Witness ==
  \E p \in Procs :
    /\ stage[p] = "route" /\ nexts[p] = 2
    /\ ruser[p] # NoUser /\ ruser[p].id = Verify(req[p].token).id

\* C24: an editProfile call that returns 'Could not update profile.' has left
\* both tables as they were when it was called and has mailed no code.
C24_FailedEditLeavesStore ==
  \A p \in Procs :
    (pc[p] = "done" /\ op[p] = "editProfile"
       /\ result[p] = Fail("Could not update profile."))
      => ~wrote[p] /\ mailed[p] = <<>>

\* C25: a verifyEmail call that returns ok: false has left both tables as they
\* were when it was called.
C25_FailedVerifyLeavesStore ==
  \A p \in Procs :
    (pc[p] = "done" /\ op[p] = "verifyEmail" /\ ~result[p].ok) => ~wrote[p]
====
